---- MODULE Spec2Model ----
(***************************************************************************)
(* A model of bot.py: the forwarding loop (forward_tweets, run by          *)
(* subscription_loop), the chat handlers that edit the per-chat rules,     *)
(* and the JSON file that serialize() writes and deserialize() reads.      *)
(*                                                                         *)
(* A Python dict is modelled as the sequence of its <<key, value>> items   *)
(* in insertion order; a list as a sequence.  The forwarding loop is a     *)
(* coroutine: it is modelled with one action per stretch of code between   *)
(* two awaits, so that the handlers interleave with it where asyncio lets  *)
(* them.  handle_input changes chats, awaits message.reply and only then   *)
(* calls serialize(): it is two actions, and the loop and the other        *)
(* handlers run between them.  The other handlers change chats and write   *)
(* the file in one stretch of code and are one action each; the outcome of *)
(* the network calls they make is an input of the action.                  *)
(***************************************************************************)
EXTENDS Integers, Sequences, FiniteSets, TLC

VARIABLES
    chats,        \* bot.py:33   the global dict  str(chat id) -> Chat
    disk,         \* the file at CHATS_PATH
    up,           \* the process is running
    pc,           \* where subscription_loop / forward_tweets is suspended
    it,           \* the iterator of  for chat in chats.values()  (bot.py:107)
    fetching,     \* the feed ids handed to asyncio.gather (bot.py:108)
    to_send,      \* bot.py:106  the local list of forward_tweets
    sent,         \* how many items of reversed(to_send) have been sent (bot.py:121)
    delivered,    \* history: every tweet the loop has delivered, and to which chat
    tickCursors,  \* history: the cursors when the tick began
    log,          \* history: the tuples the tick has sent, in order
    abort,        \* history: the exception that ended the tick, and what a gather dropped
    outcome,      \* history: how the handler of the last step ended
    replying,     \* handle_input coroutines suspended in message.reply (bot.py:250, 253)
    buttons,      \* the "Delete <term>" buttons shown so far (bot.py:164-172)
    keyboards,    \* the <<chat, subscription>> a keyboard of the chat can hold a button of
    msgs,         \* number of text messages handled so far
    epoch         \* number of restarts so far

vars == <<chats, disk, up, pc, it, fetching, to_send, sent, delivered,
          tickCursors, log, abort, outcome, replying, buttons, keyboards,
          msgs, epoch>>

\* tickCursors, log and abort describe the tick in progress, or the tick that
\* has just ended until the next event; outcome describes the last step.
\* to_send is dead once the tick has ended: it is emptied at the next event.

----------------------------------------------------------------------------
(* Bounds of the model *)

\* text messages received over a run
MaxMsgs == 2
\* tweet ids are 1..MaxId
MaxId == 3
\* a fetch returns at most MaxFetch tweets
MaxFetch == 2
\* restarts of the process over a run
MaxRestarts == 1
\* handle_input coroutines suspended in message.reply at one time
MaxReplying == 1
\* chats that send text to a bot that is stopped and started again
MaxCrashSenders == 1
\* a fetch of a bot that is stopped and started again returns at most
\* MaxCrashFetch tweets
MaxCrashFetch == 1

ChatIds == {1, 2}

\* message.text: two spellings of one user name, and a name no user has
Texts == {"a", "A", "zz"}

TweetIds == 1..MaxId

----------------------------------------------------------------------------
(* Strings *)

\* str(n) for the small integers of the model (bot.py:112, 204, 242)
Str(n) == <<"0", "1", "2", "3", "4", "5", "6", "7", "8", "9">>[n + 1]

\* the characters of the strings of the model
Chars(s) ==
    CASE s = "a"  -> <<"a">>
      [] s = "A"  -> <<"A">>
      [] s = "B"  -> <<"B">>
      [] s = "c"  -> <<"c">>
      [] s = "zz" -> <<"z", "z">>
      [] s = "Ab" -> <<"A", "b">>
      [] OTHER    -> <<>>

LowerChar(ch) ==
    CASE ch = "A" -> "a"
      [] ch = "B" -> "b"
      [] OTHER    -> ch

\* str.lower()
Lower(cs) == [i \in DOMAIN cs |-> LowerChar(cs[i])]

\* the Python test  sub in text  on character sequences
Contains(sub, text) ==
    \E i \in 0..(Len(text) - Len(sub)) :
        \A j \in 1..Len(sub) : text[i + j] = sub[j]

----------------------------------------------------------------------------
(* Python dicts as sequences of <<key, value>> items *)

Has(d, k) == \E i \in DOMAIN d : d[i][1] = k

\* d.get(k, dflt)
Get(d, k, dflt) ==
    IF Has(d, k) THEN d[CHOOSE i \in DOMAIN d : d[i][1] = k][2] ELSE dflt

\* d[k] = v
Put(d, k, v) ==
    IF Has(d, k)
    THEN [i \in DOMAIN d |-> IF d[i][1] = k THEN <<k, v>> ELSE d[i]]
    ELSE Append(d, <<k, v>>)

Keys(d) == [i \in DOMAIN d |-> d[i][1]]

Values(d) == [i \in DOMAIN d |-> d[i][2]]

Range(s) == {s[i] : i \in DOMAIN s}

Reverse(s) == [i \in DOMAIN s |-> s[Len(s) + 1 - i]]

Max(S) == CHOOSE x \in S : \A y \in S : y <= x

Min2(a, b) == IF a <= b THEN a ELSE b

----------------------------------------------------------------------------
(* The content source: users and their tweets *)

NotFound == 0

\* the rest_id of the one user of the model
UserA == 7

\* Twitter().get_user_info(name).rest_id (bot.py:252): user names are
\* case-insensitive, an unknown name raises
Resolve(name) ==
    IF Lower(Chars(name)) = <<"a">> THEN UserA ELSE NotFound

\* the author of tweet i: the tweets of the model are all of one user
TweetFeed(i) == UserA

\* x.media: the media of tweet i; every third tweet has none
TweetMedia(i) ==
    IF i % 3 = 0 THEN <<>>
    ELSE IF i % 2 = 0 THEN <<"u", "v">> ELSE <<"u">>

\* x.text
TweetText(i) ==
    CASE i % 3 = 1 -> "Ab"
      [] i % 3 = 2 -> "B"
      [] OTHER     -> "c"

\* the lists of elements of S of length at most n
RECURSIVE Lists(_, _)
Lists(S, n) ==
    IF n = 0 THEN {<<>>}
    ELSE {<<>>} \cup
         {<<x>> \o l : x \in S, l \in Lists(S, n - 1)}

Feeds == {Resolve(t) : t \in Texts} \ {NotFound}

\* what the entries of an answer can hold (bot.py:97-99): tweets of the user,
\* in any order; nothing removes a tweet that two entries hold
Timelines ==
    [u \in Feeds |-> Lists({i \in TweetIds : TweetFeed(i) = u}, MaxFetch)]

Fetched(l) == [ok |-> TRUE, tweets |-> l]

FetchError == [ok |-> FALSE, tweets |-> <<>>]

Outcomes == [u \in Feeds |-> {Fetched(l) : l \in Timelines[u]} \cup {FetchError}]

\* what get_tweets(user_id) may return (bot.py:81-101): a timeline of that
\* user, or an exception
FetchOutcomes(user_id) == Outcomes[user_id]

\* a timeline as the source's interface promises it: newest first
NewestFirst(l) == \A i \in 1..(Len(l) - 1) : l[i] > l[i + 1]

----------------------------------------------------------------------------
(* The Chat dataclass and the JSON file *)

\* Chat(id=..., last_sent_id={}, subscriptions={}) (bot.py:22-28, 205, 243)
NewChat(id) ==
    [id |-> id, last_sent_id |-> <<>>, subscriptions |-> <<>>,
     filters |-> <<>>, awaiting_filter |-> ""]

\* dataclasses.asdict(chat): the fields in declaration order
AsDict(chat) ==
    << <<"id", chat.id>>,
       <<"last_sent_id", chat.last_sent_id>>,
       <<"subscriptions", chat.subscriptions>>,
       <<"filters", chat.filters>>,
       <<"awaiting_filter", chat.awaiting_filter>> >>

\* str(n) of the integers of the model, as text
Digits == {ToString(n) : n \in 0..9}

\* the name of a member of a JSON object: json.dump writes a key that is an
\* int as its str(), and a key that is a str as it is
JsonKey(k) == LET s == ToString(k) IN IF s \in Digits THEN s ELSE k

\* a dict as a JSON object: one member per item, in the order of the dict
JsonObject(d) == [i \in DOMAIN d |-> <<JsonKey(d[i][1]), d[i][2]>>]

\* json.dump(chats, cls=EnhancedJSONEncoder): one member per chat, whose
\* value is the object of the chat's fields; the dicts among them are objects
JsonDump(d) ==
    JsonObject([i \in DOMAIN d |->
        <<d[i][1],
          LET fields == AsDict(d[i][2])
          IN  [j \in DOMAIN fields |->
                  IF fields[j][1] \in {"last_sent_id", "subscriptions", "filters"}
                  THEN <<fields[j][1], JsonObject(fields[j][2])>>
                  ELSE fields[j]]>>])

\* json.load of an object: a dict of its members, where a name that comes
\* twice keeps its first place and its last value
RECURSIVE JsonDict(_)
JsonDict(m) ==
    IF m = <<>> THEN <<>>
    ELSE LET n == Len(m)
         IN  Put(JsonDict(SubSeq(m, 1, n - 1)), m[n][1], m[n][2])

\* Chat(**v): filters and awaiting_filter have defaults
ChatFromJson(v) ==
    [id |-> Get(v, "id", 0),
     last_sent_id |-> JsonDict(Get(v, "last_sent_id", <<>>)),
     subscriptions |-> JsonDict(Get(v, "subscriptions", <<>>)),
     filters |-> JsonDict(Get(v, "filters", <<>>)),
     awaiting_filter |-> Get(v, "awaiting_filter", "")]

\* {k: Chat(**v) for k, v in json.load(fout).items()}
JsonLoad(data) ==
    LET d == JsonDict(data)
    IN  [i \in DOMAIN d |-> <<d[i][1], ChatFromJson(d[i][2])>>]

NoFile == [exists |-> FALSE, closed |-> FALSE, data |-> <<>>]

NoCut == 0 - 1

\* the process stops on its way to serialize(), before open() (bot.py:52)
BeforeOpen == 0 - 2

\* serialize() (bot.py:51-53): open(CHATS_PATH, "w") truncates the file, then
\* json.dump writes it member by member.  cut = NoCut: the write completes;
\* cut = n: the process stops after n members, before the closing brace.
serialize(d, cut) ==
    IF cut = NoCut
    THEN [exists |-> TRUE, closed |-> TRUE, data |-> JsonDump(d)]
    ELSE [exists |-> TRUE, closed |-> FALSE,
          data |-> JsonDump(SubSeq(d, 1, Min2(cut, Len(d))))]

\* json.load raises on a file that is not one whole JSON value
Loadable(file) == file.exists => file.closed

\* deserialize() (bot.py:56-60): chats stays dict() when there is no file
deserialize(file) == IF file.exists THEN JsonLoad(file.data) ELSE <<>>

----------------------------------------------------------------------------
(* send_tweet and the filters of forward_tweets *)

\* send_tweet (bot.py:65-78): the call it makes on the bot
send_tweet(tweet) ==
    LET urls == TweetMedia(tweet)
    IN  IF urls # <<>>
        THEN IF Len(urls) > 1 THEN "send_media_group" ELSE "send_photo"
        ELSE "send_message"

\* the loop and the search without the media filter of bot.py:113, 232
HasMedia_Always(x) == TRUE

\* bot.py:113, 232
HasMedia(x) == TweetMedia(x) # <<>>

\* the loop without the filter of bot.py:114
IsNew_Always(x, last_sent) == TRUE

\* bot.py:114
IsNew(x, last_sent) == x > last_sent

\* the filter of bot.py:115 without the two lower(): terms are matched as typed
Matches_AsTyped(x, filters) ==
    \/ filters = <<>>
    \/ \E i \in DOMAIN filters : Contains(Chars(filters[i]), Chars(TweetText(x)))

\* bot.py:115, 235
Matches(x, filters) ==
    \/ filters = <<>>
    \/ \E i \in DOMAIN filters :
          Contains(Lower(Chars(filters[i])), Lower(Chars(TweetText(x))))

\* the loop with cursors kept under the user id itself
CursorKey_Raw(user_id) == user_id

\* bot.py:112, 123: last_sent_id is keyed by str(user_id)
CursorKey(user_id) == Str(user_id)

\* bot.py:110-116: the tweets of one subscription that pass the three filters
Accept(chat, user_name, user_id, tweets) ==
    LET filters == Get(chat.filters, user_name, <<>>)
        last_sent == Get(chat.last_sent_id, CursorKey(user_id), 0)
    IN  SelectSeq(tweets,
                  LAMBDA x : HasMedia(x) /\ IsNew(x, last_sent) /\ Matches(x, filters))

\* bot.py:118-119: the tuples appended for one subscription.  The tuple of the
\* code is (chat, tweet, user_id); name records which subscription it came from.
Tuples(key, name, user_id, tweets) ==
    [j \in DOMAIN tweets |->
        [chat |-> key, tweet |-> tweets[j], user_id |-> user_id, name |-> name]]

\* bot.py:109-119: zip(results, chat.subscriptions.items()) stops at the shorter
RECURSIVE Zipped(_, _, _, _)
Zipped(key, chat, results, n) ==
    IF n = 0 THEN <<>>
    ELSE Zipped(key, chat, results, n - 1) \o
         Tuples(key, chat.subscriptions[n][1], chat.subscriptions[n][2],
                Accept(chat, chat.subscriptions[n][1], chat.subscriptions[n][2],
                       results[n].tweets))

Collected(key, chat, results) ==
    Zipped(key, chat, results, Min2(Len(results), Len(chat.subscriptions)))

\* the loop without the max of bot.py:123: the cursor is the tweet just sent
NewCursor_LastSent(tweet, old) == tweet

\* bot.py:123
NewCursor(tweet, old) == IF tweet > old THEN tweet ELSE old

\* the loop without the reversed() of bot.py:121
SendOrder_AsCollected(l) == l

\* bot.py:121: the order in which to_send is sent
SendOrder(l) == Reverse(l)

\* the index of the next chat after position p whose gather suspends: gather
\* of no coroutines is already done and does not yield.  0: there is none.
NextChat(d, p) ==
    IF \E q \in (p + 1)..Len(d) : d[q][2].subscriptions # <<>>
    THEN CHOOSE q \in (p + 1)..Len(d) :
            /\ d[q][2].subscriptions # <<>>
            /\ \A r \in (p + 1)..(q - 1) : d[r][2].subscriptions = <<>>
    ELSE 0

----------------------------------------------------------------------------
(* The initial state: main has called deserialize() with no file and has   *)
(* created the subscription_loop task (bot.py:258-263)                     *)

NoAbort == [kind |-> "none", dropped |-> <<>>]

NoIter == [pos |-> 0, size |-> 0]

\* how a handler ends: it runs to its end, or an exception leaves it
Replied == "replied"

HandlerRaised == "raised"

NoOutcome == "none"

Init ==
    /\ chats = <<>>
    /\ disk = NoFile
    /\ up = TRUE
    /\ pc = "start"
    /\ it = NoIter
    /\ fetching = <<>>
    /\ to_send = <<>>
    /\ sent = 0
    /\ delivered = {}
    /\ tickCursors = <<>>
    /\ log = <<>>
    /\ abort = NoAbort
    /\ outcome = NoOutcome
    /\ replying = 0
    /\ buttons = {}
    /\ keyboards = {}
    /\ msgs = 0
    /\ epoch = 0

\* the process has stopped: what it held in memory is gone
Down ==
    /\ up' = FALSE
    /\ chats' = <<>>
    /\ pc' = "off"
    /\ it' = NoIter
    /\ fetching' = <<>>
    /\ to_send' = <<>>
    /\ sent' = 0
    /\ tickCursors' = <<>>
    /\ log' = <<>>
    /\ abort' = NoAbort
    /\ outcome' = NoOutcome
    /\ replying' = 0

\* the process stops where it was to write chats as d: before open() the file
\* is as it was, after it the file holds the members written so far
Stops(d, cut) ==
    /\ cut <= Len(d)
    /\ Down
    /\ disk' = IF cut = BeforeOpen THEN disk ELSE serialize(d, cut)

----------------------------------------------------------------------------
(* forward_tweets, run by subscription_loop *)

\* an exception of a gather leaves forward_tweets: subscription_loop logs it
\* and sleeps one second (bot.py:139-141); the frame and its to_send are dead,
\* dropped holds the tuples the tick had collected
Raised(kind, dropped) ==
    /\ pc' = "sleep1"
    /\ abort' = [kind |-> kind, dropped |-> dropped]
    /\ UNCHANGED <<to_send, sent>>
    /\ it' = NoIter
    /\ fetching' = <<>>

\* bot.py:107-108 after the chat at position p is done: the iterator checks the
\* dict's size, then the loop suspends in the gather of the next chat that has
\* subscriptions, or ends and goes on to bot.py:121-128
Advance(p, list) ==
    IF Len(chats) # it.size
    THEN Raised("iter", list)
    ELSE LET q == NextChat(chats, p)
         IN  /\ abort' = NoAbort
             /\ sent' = 0
             /\ IF q # 0
                THEN /\ pc' = "gather"
                     /\ to_send' = list
                     /\ it' = [it EXCEPT !.pos = q]
                     /\ fetching' = Values(chats[q][2].subscriptions)
                ELSE /\ pc' = IF list = <<>> THEN "sleep60" ELSE "send"
                     /\ to_send' = list
                     /\ it' = NoIter
                     /\ fetching' = <<>>

\* bot.py:105-108: a tick begins, from the start of the task or after a sleep
forward_tweets ==
    /\ up
    /\ pc \in {"start", "sleep60", "sleep1"}
    /\ LET q == NextChat(chats, 0)
       IN  /\ to_send' = <<>>
           /\ sent' = 0
           /\ log' = <<>>
           /\ abort' = NoAbort
           /\ outcome' = NoOutcome
           /\ tickCursors' = [i \in DOMAIN chats |-> <<chats[i][1], chats[i][2].last_sent_id>>]
           /\ IF q # 0
              THEN /\ pc' = "gather"
                   /\ it' = [pos |-> q, size |-> Len(chats)]
                   /\ fetching' = Values(chats[q][2].subscriptions)
              ELSE /\ pc' = "sleep60"
                   /\ it' = NoIter
                   /\ fetching' = <<>>
    /\ UNCHANGED <<chats, disk, up, delivered, replying, buttons, keyboards, msgs,
                   epoch>>

\* bot.py:108-119: the gather of one chat returns, or raises the first
\* exception of its fetches
gather(results) ==
    /\ up
    /\ pc = "gather"
    /\ Len(results) = Len(fetching)
    /\ LET key == chats[it.pos][1]
           chat == chats[it.pos][2]
           list == to_send \o Collected(key, chat, results)
       IN  IF \E i \in DOMAIN results : ~results[i].ok
           THEN Raised("fetch", list)
           ELSE Advance(it.pos, list)
    /\ outcome' = NoOutcome
    /\ UNCHANGED <<chats, disk, up, delivered, tickCursors, log, replying, buttons,
                   keyboards, msgs, epoch>>

\* bot.py:121-128: one send_tweet returns or raises; after the last one the
\* loop serializes and goes to sleep.  When it raises, the exception leaves
\* forward_tweets as in Raised, the cursors of the sends before it stay in
\* memory, and the history of the tick ends with its frame.  cut # NoCut: the
\* process is killed after the last send_tweet has returned, before open() or
\* inside json.dump (Stops); a kill after an earlier send is a crash step
send(ok, cut) ==
    /\ up
    /\ pc = "send"
    /\ LET e == SendOrder(to_send)[sent + 1]
           chat == Get(chats, e.chat, NewChat(0))
           k == CursorKey(e.user_id)
           moved == [chat EXCEPT !.last_sent_id =
                        Put(@, k, NewCursor(e.tweet, Get(@, k, 0)))]
           after == Put(chats, e.chat, moved)
           last == sent + 1 = Len(to_send)
       IN  IF ~ok
           THEN /\ cut = NoCut
                /\ pc' = "sleep1"
                /\ abort' = [kind |-> "send", dropped |-> <<>>]
                /\ it' = NoIter
                /\ fetching' = <<>>
                /\ to_send' = <<>>
                /\ sent' = 0
                /\ tickCursors' = <<>>
                /\ log' = <<>>
                /\ outcome' = NoOutcome
                /\ UNCHANGED <<chats, disk, up, delivered, replying>>
           ELSE /\ delivered' = delivered \cup
                       {[chat |-> chat.id, tweet |-> e.tweet,
                         call |-> send_tweet(e.tweet), epoch |-> epoch]}
                /\ IF last /\ cut # NoCut
                   THEN Stops(after, cut)
                   ELSE /\ cut = NoCut
                        /\ chats' = after
                        /\ log' = Append(log, e)
                        /\ disk' = IF last THEN serialize(after, NoCut) ELSE disk
                        /\ pc' = IF last THEN "sleep60" ELSE "send"
                        /\ sent' = sent + 1
                        /\ outcome' = NoOutcome
                        /\ UNCHANGED <<up, it, fetching, to_send, tickCursors, abort,
                                       replying>>
    /\ UNCHANGED <<buttons, keyboards, msgs, epoch>>

----------------------------------------------------------------------------
(* The handlers *)

\* how a stretch of a handler leaves the state: chats as it made them, saved
\* or not, and suspended handle_input coroutines waiting for their reply.  The
\* history of a tick that has ended is dropped at the next event.
Ends(after, result, saves, cut, suspended) ==
    IF saves /\ cut # NoCut
    THEN Stops(after, cut)
    ELSE /\ cut = NoCut
         /\ chats' = after
         /\ replying' = suspended
         /\ outcome' = IF result = HandlerRaised THEN HandlerRaised ELSE NoOutcome
         /\ disk' = IF saves THEN serialize(after, NoCut) ELSE disk
         /\ IF pc \in {"gather", "send"}
            THEN UNCHANGED <<to_send, sent, tickCursors, log, abort>>
            ELSE /\ to_send' = <<>> /\ sent' = 0
                 /\ tickCursors' = <<>> /\ log' = <<>> /\ abort' = NoAbort
         /\ UNCHANGED <<up, pc, it, fetching>>

\* a keyboard of the chat can hold a button whose callback data name the
\* chat c and the subscription name: /edit and /search show one for every
\* subscription the chat has (bot.py:148-153, 211-216), edit_rule passes the
\* name on to its "Add new filter" button (bot.py:174-181), and showing them
\* changes nothing else.  The keyboards stay in the chat when the process
\* stops, whatever the chats of the next process are.
OnKeyboard(c, name) == <<c, name>> \in keyboards

\* a handler that appends the term and leaves awaiting_filter as it was
AppendFilter_StillAwaiting(chat, text) ==
    [chat EXCEPT !.filters = Put(@, chat.awaiting_filter,
                                 Get(@, chat.awaiting_filter, <<>>) \o <<text>>)]

\* bot.py:248-249: the text is appended to the filters of the subscription the
\* chat is awaiting a filter for, and the chat awaits none
AppendFilter(chat, text) ==
    [chat EXCEPT !.filters = Put(@, chat.awaiting_filter,
                                 Get(@, chat.awaiting_filter, <<>>) \o <<text>>),
                 !.awaiting_filter = ""]

\* bot.py:240-253: the handler up to its await of message.reply.  A name that
\* does not resolve raises at bot.py:252, after the chat was created
handle_input(c, text) ==
    /\ up
    /\ msgs < MaxMsgs
    /\ msgs' = msgs + 1
    /\ LET key == Str(c)
           chats1 == IF Has(chats, key) THEN chats ELSE Put(chats, key, NewChat(c))
           chat == Get(chats1, key, NewChat(c))
           s == chat.awaiting_filter
       IN  IF s # ""
           THEN /\ replying < MaxReplying
                /\ Ends(Put(chats1, key, AppendFilter(chat, text)),
                        Replied, FALSE, NoCut, replying + 1)
                /\ keyboards' = keyboards
           ELSE IF Resolve(text) = NotFound
                THEN /\ Ends(chats1, HandlerRaised, FALSE, NoCut, replying)
                     /\ keyboards' = keyboards
                ELSE /\ replying < MaxReplying
                     /\ Ends(Put(chats1, key,
                                 [chat EXCEPT !.subscriptions = Put(@, text, Resolve(text))]),
                             Replied, FALSE, NoCut, replying + 1)
                     /\ keyboards' = keyboards \cup {<<c, text>>}
    /\ UNCHANGED <<delivered, buttons, epoch>>

\* bot.py:250/253-255: the message.reply of a suspended handle_input returns
\* and the handler calls serialize(), which writes chats as they are by then.
\* fault "reply": message.reply raises and the handler ends without the write
handle_input_serialize(fault, cut) ==
    /\ up
    /\ replying > 0
    /\ Ends(chats, IF fault = "reply" THEN HandlerRaised ELSE Replied,
            fault # "reply", cut, replying - 1)
    /\ UNCHANGED <<delivered, buttons, keyboards, msgs, epoch>>

\* bot.py:144-155: /edit
edit_rules(c) ==
    /\ up
    /\ Ends(chats, IF Has(chats, Str(c)) THEN Replied ELSE HandlerRaised,
            FALSE, NoCut, replying)
    /\ UNCHANGED <<delivered, buttons, keyboards, msgs, epoch>>

\* bot.py:158-183: a subscription's button of an /edit keyboard.  The chat is
\* looked up by the button's callback data and bot.py:161 raises KeyError when
\* chats has no such chat; a chat without the subscription gets a keyboard
\* with "Add new filter" alone (bot.py:164)
edit_rule(c, name) ==
    /\ up
    /\ OnKeyboard(c, name)
    /\ IF Has(chats, Str(c))
       THEN /\ LET terms == Get(Get(chats, Str(c), NewChat(c)).filters, name, <<>>)
               IN  buttons' = buttons \cup
                       {[chat_id |-> c, subscription |-> name, idx |-> i - 1,
                         term |-> terms[i]] : i \in DOMAIN terms}
            /\ Ends(chats, Replied, FALSE, NoCut, replying)
       ELSE /\ buttons' = buttons
            /\ Ends(chats, HandlerRaised, FALSE, NoCut, replying)
    /\ UNCHANGED <<delivered, keyboards, msgs, epoch>>

\* bot.py:186-191: an "Add new filter" button.  The reply comes first
\* (bot.py:188); then bot.py:189 raises KeyError when chats has no such chat,
\* and otherwise the chat awaits a filter for the subscription of the button,
\* whether it has that subscription or not (bot.py:190), and chats is written.
\* fault "reply": the reply raises
add_filter(c, name, fault, cut) ==
    /\ up
    /\ OnKeyboard(c, name)
    /\ LET key == Str(c)
           chat == Get(chats, key, NewChat(c))
       IN  IF fault = "reply" \/ ~Has(chats, key)
           THEN Ends(chats, HandlerRaised, FALSE, cut, replying)
           ELSE Ends(Put(chats, key, [chat EXCEPT !.awaiting_filter = name]),
                     Replied, TRUE, cut, replying)
    /\ UNCHANGED <<delivered, buttons, keyboards, msgs, epoch>>

\* bot.py:194-199: a "Delete <term>" button shown earlier
delete_filter(b, cut) ==
    /\ up
    /\ b \in buttons
    /\ LET key == Str(b.chat_id)
           chat == Get(chats, key, NewChat(b.chat_id))
           terms == Get(chat.filters, b.subscription, <<>>)
       IN  IF ~Has(chats, key) \/ ~Has(chat.filters, b.subscription) \/ b.idx >= Len(terms)
           THEN Ends(chats, HandlerRaised, FALSE, cut, replying)
           ELSE Ends(Put(chats, key,
                         [chat EXCEPT !.filters =
                             Put(@, b.subscription,
                                 SubSeq(terms, 1, b.idx) \o SubSeq(terms, b.idx + 2, Len(terms)))]),
                     Replied, TRUE, cut, replying)
    /\ UNCHANGED <<delivered, buttons, keyboards, msgs, epoch>>

\* bot.py:202-218: /search
search_menu(c) ==
    /\ up
    /\ Ends(IF Has(chats, Str(c)) THEN chats ELSE Put(chats, Str(c), NewChat(c)),
            Replied, FALSE, NoCut, replying)
    /\ UNCHANGED <<delivered, buttons, keyboards, msgs, epoch>>

\* the first tweet of l that search_by_rule sends (bot.py:231-237), 0 if none
FirstMatch(l, filters) ==
    IF \E i \in DOMAIN l : HasMedia(l[i]) /\ Matches(l[i], filters)
    THEN l[CHOOSE i \in DOMAIN l :
              /\ HasMedia(l[i]) /\ Matches(l[i], filters)
              /\ \A j \in 1..(i - 1) : ~(HasMedia(l[j]) /\ Matches(l[j], filters))]
    ELSE 0

\* the tweet search_by_rule sends to chat c for its subscription name when
\* api.get_tweets returns tweets (bot.py:225-237), 0 if it sends none
Found(c, name, tweets) ==
    FirstMatch(tweets, Get(Get(chats, Str(c), NewChat(c)).filters, name, <<>>))

\* bot.py:221-237: a subscription's button of a /search keyboard.  bot.py:225
\* raises KeyError when chats has no such chat and bot.py:226 when the chat
\* has no such subscription.  Otherwise api.get_tweets returns a timeline of
\* the user and the handler sends the first tweet of it that passes (Found),
\* if there is one; whichever timeline it is, that leaves the state of the
\* bot as it was.  fault "send": api.get_tweets or send_tweet raises
search_by_rule(c, name, fault) ==
    /\ up
    /\ OnKeyboard(c, name)
    /\ LET chat == Get(chats, Str(c), NewChat(c))
           held == Has(chats, Str(c)) /\ Has(chat.subscriptions, name)
       IN  /\ held => Timelines[Get(chat.subscriptions, name, 0)] # {}
           /\ Ends(chats, IF held /\ fault = "none" THEN Replied ELSE HandlerRaised,
                   FALSE, NoCut, replying)
    /\ UNCHANGED <<delivered, buttons, keyboards, msgs, epoch>>

----------------------------------------------------------------------------
(* The process stops and starts *)

\* the process is killed at an await
crash ==
    /\ up
    /\ Down
    /\ UNCHANGED <<disk, delivered, buttons, keyboards, msgs, epoch>>

\* bot.py:258-263: main calls deserialize() and starts the loop; json.load
\* raises on a torn file and the process exits
restart ==
    /\ ~up
    /\ pc = "off"
    /\ epoch < MaxRestarts
    /\ epoch' = epoch + 1
    /\ IF Loadable(disk)
       THEN /\ chats' = deserialize(disk)
            /\ up' = TRUE
            /\ pc' = "start"
       ELSE /\ chats' = <<>>
            /\ up' = FALSE
            /\ pc' = "exited"
    /\ UNCHANGED <<disk, it, fetching, to_send, sent, delivered, tickCursors, log,
                   abort, outcome, replying, buttons, keyboards, msgs>>

----------------------------------------------------------------------------
(* Specifications *)

\* the results a gather of the feeds f can return
RECURSIVE Vectors(_)
Vectors(f) ==
    IF f = <<>> THEN {<<>>}
    ELSE {<<o>> \o v : o \in FetchOutcomes(Head(f)), v \in Vectors(Tail(f))}

Names == {t \in Texts : Resolve(t) # NotFound}

\* the steps of the running process.  senders: the chats that send text to the
\* bot; cuts: where a write may be cut short; faults: whether a reply to the
\* chat may fail; fetch: the most tweets a fetch returns
Step(senders, cuts, faults, fetch) ==
    \/ forward_tweets
    \/ \E results \in Vectors(fetching) :
          /\ \A i \in DOMAIN results : Len(results[i].tweets) <= fetch
          /\ gather(results)
    \/ \E ok \in BOOLEAN, cut \in cuts : send(ok, cut)
    \/ \E c \in senders, text \in Texts : handle_input(c, text)
    \/ \E fault \in faults, cut \in cuts : handle_input_serialize(fault, cut)
    \/ \E c \in ChatIds : edit_rules(c)
    \/ \E c \in ChatIds, name \in Names : edit_rule(c, name)
    \/ \E c \in ChatIds, name \in Names, fault \in faults, cut \in cuts :
          add_filter(c, name, fault, cut)
    \/ \E b \in buttons, cut \in cuts : delete_filter(b, cut)
    \/ \E c \in ChatIds : search_menu(c)
    \/ \E c \in ChatIds, name \in Names, fault \in faults :
          search_by_rule(c, name, fault)

\* the process runs and is never stopped, and its replies arrive
Next == Step(ChatIds, {NoCut}, {"none"}, MaxFetch)

Spec == Init /\ [][Next]_vars

\* where a write of the file can be cut short: before the file is opened, or
\* after any number of members
Cuts == {NoCut, BeforeOpen} \cup (0..Cardinality(ChatIds))

\* the chats that send text to a bot that is stopped and started again: the
\* first MaxCrashSenders of them; every chat sends commands and presses buttons
CrashSenders == {c \in ChatIds : c <= MaxCrashSenders}

\* the loop and the handlers, with a process that can be killed at any await
\* or on its way through a write, and started again
NextCrash ==
    \/ Step(CrashSenders, Cuts, {"none"}, MaxCrashFetch)
    \/ crash
    \/ restart

SpecCrash == Init /\ [][NextCrash]_vars

\* the chat that cannot be reached: every send to it raises
Unreachable == Max(ChatIds)

\* a send of the loop when the sends to the chat Unreachable raise and the
\* others return
send_or_raise ==
    /\ pc = "send"
    /\ send(SendOrder(to_send)[sent + 1].chat # Str(Unreachable), NoCut)

\* the newest tweets of a user, as a fetch returns them when the user posts
\* nothing more
Newest(user_id) ==
    CHOOSE l \in Timelines[user_id] :
        /\ NewestFirst(l)
        /\ \A m \in Timelines[user_id] : NewestFirst(m) => Len(m) <= Len(l)
        /\ \A i \in DOMAIN l, x \in TweetIds : x > l[i] => \E j \in DOMAIN l : l[j] = x

\* a gather of the loop when every fetch returns, with the same tweets each time
gather_returns ==
    \E results \in Vectors(fetching) :
        /\ \A i \in DOMAIN results :
              results[i].ok /\ results[i].tweets = Newest(fetching[i])
        /\ gather(results)

\* the loop and the messages that subscribe, when one chat cannot be reached
\* and nothing else fails
NextSink ==
    \/ forward_tweets
    \/ gather_returns
    \/ send_or_raise
    \/ \E c \in ChatIds, text \in Texts : handle_input(c, text)
    \/ handle_input_serialize("none", NoCut)

\* the event loop runs the task of subscription_loop: its sleeps end and its
\* awaits return or raise (bot.py:131-141); the reply a handler awaits returns
SpecSink ==
    /\ Init /\ [][NextSink]_vars
    /\ WF_vars(forward_tweets) /\ WF_vars(gather_returns) /\ WF_vars(send_or_raise)
    /\ WF_vars(handle_input_serialize("none", NoCut))

\* a gather of the loop when the source refuses every request for good
gather_raises ==
    \E results \in Vectors(fetching) :
        /\ \A i \in DOMAIN results : ~results[i].ok
        /\ gather(results)

\* the loop and the messages that subscribe, when every fetch fails
NextFatal ==
    \/ forward_tweets
    \/ gather_raises
    \/ \E c \in ChatIds, text \in Texts : handle_input(c, text)
    \/ handle_input_serialize("none", NoCut)

\* the event loop runs the task of subscription_loop (bot.py:131-141); the
\* reply a handler awaits returns
SpecFatal ==
    /\ Init /\ [][NextFatal]_vars
    /\ WF_vars(forward_tweets) /\ WF_vars(gather_raises)
    /\ WF_vars(handle_input_serialize("none", NoCut))

\* the task of subscription_loop is cancelled: CancelledError is raised at the
\* await the task is suspended in, leaves forward_tweets and is caught at
\* bot.py:137-138, where the loop breaks; the handlers go on
cancel ==
    /\ up
    /\ pc \in {"start", "gather", "send", "sleep60", "sleep1"}
    /\ pc' = "cancelled"
    /\ it' = NoIter
    /\ fetching' = <<>>
    /\ outcome' = NoOutcome
    /\ UNCHANGED <<chats, disk, up, to_send, sent, delivered, tickCursors, log, abort,
                   replying, buttons, keyboards, msgs, epoch>>

\* the loop and the messages that subscribe, with a task that can be cancelled
NextCancel ==
    \/ forward_tweets
    \/ \E results \in Vectors(fetching) : gather(results)
    \/ \E ok \in BOOLEAN : send(ok, NoCut)
    \/ \E c \in ChatIds, text \in Texts : handle_input(c, text)
    \/ handle_input_serialize("none", NoCut)
    \/ cancel

SpecCancel == Init /\ [][NextCancel]_vars

----------------------------------------------------------------------------
(* Cursors *)

\* the cursor chat c holds for the feed user_id, 0 when it has none
CursorOf(c, user_id) ==
    Get(Get(chats, Str(c), NewChat(c)).last_sent_id, Str(user_id), 0)

\* the newest tweet of the feed user_id that chat c was ever sent, 0 if none
MaxDelivered(c, user_id) ==
    Max({0} \cup {d.tweet : d \in {x \in delivered :
                                     x.chat = c /\ TweetFeed(x.tweet) = user_id}})

\* C1: the cursor of a chat for a feed never decreases from one step to the
\* next, and it is at all times the largest tweet id the loop has delivered to
\* that chat from that feed (0 while nothing was delivered), whatever the
\* handlers did to the chat's rules in between.
C1_MonotonicCursor ==
    /\ [](\A c \in ChatIds, u \in Feeds : CursorOf(c, u) = MaxDelivered(c, u))
    /\ [][\A c \in ChatIds, u \in Feeds : CursorOf(c, u)' >= CursorOf(c, u)]_vars

\* a second tick has moved a cursor on: chat 1 was sent tweet 1 in one tick and
\* tweet 2 in a later one, and its cursor is 2
C1_Witness ==
    /\ pc = "sleep60"
    /\ CursorOf(1, UserA) = 2
    /\ \E d \in delivered : d.chat = 1 /\ d.tweet = 1
    /\ Len(log) = 1 /\ log[1].tweet = 2 /\ log[1].chat = "1"
    /\ Get(Get(tickCursors, "1", <<>>), Str(UserA), 0) = 1

\* the cursor the tick began with for the tuple e of to_send or log
CursorAtStart(e) == Get(Get(tickCursors, e.chat, <<>>), Str(e.user_id), 0)

\* C2: every tweet the loop sends in a tick is newer than the cursor its
\* (chat, Twitter user id) had when the tick began: a tweet at or below that
\* cursor is never sent, in this tick or, the cursors never decreasing, later.
C2_NoDuplicateDelivery ==
    \A i \in DOMAIN log : log[i].tweet > CursorAtStart(log[i])

\* a tick that began with a cursor at 1 or more has sent a tweet
C2_Witness ==
    \E i \in DOMAIN log :
        /\ CursorAtStart(log[i]) >= 1
        /\ \E d \in delivered : d.tweet <= CursorAtStart(log[i])

----------------------------------------------------------------------------
(* Order of the sends *)

\* the tweets of the tuples of l that are for chat key's subscription name
Sub(l, key, name) ==
    LET own == SelectSeq(l, LAMBDA e : e.chat = key /\ e.name = name)
    IN  [i \in DOMAIN own |-> own[i].tweet]

OldestFirst(l) == \A i, j \in DOMAIN l : i < j => l[i] < l[j]

\* C4: within a tick, when the tweets collected for a (chat, subscription)
\* came newest-first (each one newer than the next), the loop sends them to
\* that chat oldest first, however many chats and subscriptions the tick
\* collected for.
C4_ChronologicalOrder ==
    \A c \in ChatIds, name \in Names :
        NewestFirst(Sub(to_send, Str(c), name)) => OldestFirst(Sub(log, Str(c), name))

\* a tick that collected for two chats has sent chat 1 the two tweets of its
\* subscription, the older one first
C4_Witness ==
    /\ \E name \in Names :
          /\ Sub(to_send, "1", name) = <<2, 1>>
          /\ Sub(log, "1", name) = <<1, 2>>
    /\ \E i \in DOMAIN to_send : to_send[i].chat = "2"

----------------------------------------------------------------------------
(* A fetch fails *)

\* C5: when a fetch of a tick fails, the tweets the tick has fetched and
\* accepted for the other (chat, subscription) pairs are still sent in that
\* tick: the tick that a failed fetch has ended has sent every tuple it had
\* collected.
C5_FetchFailureIsolation ==
    abort.kind = "fetch" =>
        \A i \in DOMAIN abort.dropped : \E j \in DOMAIN log : log[j] = abort.dropped[i]

----------------------------------------------------------------------------
(* A send fails *)

\* C6: when the sends to one chat fail for good, the failed tweet is dropped
\* and the loop goes on: every tweet a tick has accepted for another chat is
\* eventually delivered to that chat.
C6_SinkFailureIsolation ==
    \A c \in ChatIds \ {Unreachable}, t \in TweetIds :
        (pc = "send" /\ \E i \in DOMAIN to_send : to_send[i].chat = Str(c) /\ to_send[i].tweet = t)
            ~> (\E d \in delivered : d.chat = c /\ d.tweet = t)

----------------------------------------------------------------------------
(* The process is killed and started again *)

\* C3: a tweet the loop delivered to a chat before the process stopped is not
\* delivered to that chat again by the process started from the file.
C3_NoRedeliveryAfterRestart ==
    \A d, e \in delivered : d.chat = e.chat /\ d.tweet = e.tweet => d.epoch = e.epoch

\* C8: the file on disk is at all times one whole snapshot of chats, so that a
\* process stopped in the middle of serialize() starts again from the snapshot
\* before the write or the one after it.
C8_AtomicPersistence == Loadable(disk)

----------------------------------------------------------------------------
(* The file and the memory *)

\* no handler and no tick is in the middle of executing
Quiescent == up /\ pc \in {"start", "sleep60", "sleep1"} /\ replying = 0

\* C7: whenever no handler and no tick is executing, the file holds the chats
\* the process holds in memory: every change of chats was written by the
\* operation that made it, also when that operation ended with an error.
C7_PersistenceAfterMutation == Quiescent => deserialize(disk) = chats

\* the same key: of the same type and equal
SameKey(a, b) == ToString(a) = ToString(b)

\* the same dict: the same keys in the same order, each with the same value
SameDict(d, e) ==
    /\ Len(d) = Len(e)
    /\ \A i \in DOMAIN d : SameKey(d[i][1], e[i][1]) /\ d[i][2] = e[i][2]

\* C9: for every chat map the process can hold, serialize followed by
\* deserialize yields the same map: the same chats under the same keys, with
\* the same id, subscriptions, last_sent_id, filters and awaiting_filter.
C9_RoundTrip ==
    up =>
        LET loaded == deserialize(serialize(chats, NoCut))
        IN  /\ Len(loaded) = Len(chats)
            /\ \A i \in DOMAIN chats :
                  /\ SameKey(loaded[i][1], chats[i][1])
                  /\ loaded[i][2].id = chats[i][2].id
                  /\ SameDict(loaded[i][2].subscriptions, chats[i][2].subscriptions)
                  /\ SameDict(loaded[i][2].last_sent_id, chats[i][2].last_sent_id)
                  /\ SameDict(loaded[i][2].filters, chats[i][2].filters)
                  /\ loaded[i][2].awaiting_filter = chats[i][2].awaiting_filter

\* the file was written from a chat that has a subscription, a cursor, a filter
\* and a pending input, and loads as the chats in memory
C9_Witness ==
    /\ up
    /\ \E i \in DOMAIN chats :
          /\ chats[i][2].subscriptions # <<>>
          /\ chats[i][2].last_sent_id # <<>>
          /\ chats[i][2].filters # <<>>
          /\ chats[i][2].awaiting_filter # ""
    /\ disk = serialize(chats, NoCut)
    /\ deserialize(disk) = chats

----------------------------------------------------------------------------
(* Media *)

\* C10: no tweet without media is ever sent to a chat: every tweet the loop
\* has delivered has media and went out as a photo or a media group, and
\* whatever timeline the search of a subscription is given, whatever the chat's
\* filters, the tweet it sends has media.
C10_MediaOnly ==
    /\ \A d \in delivered : TweetMedia(d.tweet) # <<>> /\ d.call # "send_message"
    /\ \A c \in ChatIds, name \in Names :
          OnKeyboard(c, name) =>
              \A tweets \in Timelines[Resolve(name)] :
                  Found(c, name, tweets) # 0 => TweetMedia(Found(c, name, tweets)) # <<>>

\* the loop has delivered a photo and a media group, and the search of a
\* subscription that is given the tweet without media first passes over it
C10_Witness ==
    /\ \E d, e \in delivered : d.call = "send_photo" /\ e.call = "send_media_group"
    /\ \E c \in ChatIds, name \in Names :
          /\ OnKeyboard(c, name)
          /\ TweetMedia(3) = <<>>
          /\ Found(c, name, <<3, 2>>) = 2

----------------------------------------------------------------------------
(* The filters of a subscription *)

UpperChar(ch) ==
    CASE ch = "a" -> "A"
      [] ch = "b" -> "B"
      [] ch = "c" -> "C"
      [] ch = "z" -> "Z"
      [] OTHER    -> ch

\* term occurs in text when letter case is ignored
OccursIn(term, text) ==
    LET t == [i \in DOMAIN Chars(term) |-> UpperChar(Chars(term)[i])]
        x == [i \in DOMAIN Chars(text) |-> UpperChar(Chars(text)[i])]
    IN  \E k \in 0..(Len(x) - Len(t)) : SubSeq(x, k + 1, k + Len(t)) = t

\* the reference set: the fetched tweets with media and an id above the
\* cursor, all of them when the subscription has no filter term, else those
\* whose text has one of the terms in it
Reference(chat, user_name, user_id, tweets) ==
    LET terms == IF Has(chat.filters, user_name)
                 THEN chat.filters[CHOOSE i \in DOMAIN chat.filters :
                                      chat.filters[i][1] = user_name][2]
                 ELSE <<>>
        cursor == IF Has(chat.last_sent_id, Str(user_id))
                  THEN chat.last_sent_id[CHOOSE i \in DOMAIN chat.last_sent_id :
                                            chat.last_sent_id[i][1] = Str(user_id)][2]
                  ELSE 0
    IN  {x \in Range(tweets) :
            /\ TweetMedia(x) # <<>>
            /\ x > cursor
            /\ Len(terms) = 0 \/ \E i \in DOMAIN terms : OccursIn(terms[i], TweetText(x))}

\* C11: for every chat, every subscription of it and every timeline a fetch
\* can return, the tweets the tick accepts are the reference set: those with
\* media and an id above the cursor, all of them when the filter list is empty
\* or absent, else exactly those whose text contains a term, case ignored.
C11_FilterPassThrough ==
    \A i \in DOMAIN chats :
        \A j \in DOMAIN chats[i][2].subscriptions :
            LET chat == chats[i][2]
                name == chat.subscriptions[j][1]
                user_id == chat.subscriptions[j][2]
            IN  \A tweets \in Timelines[user_id] :
                    Range(Accept(chat, name, user_id, tweets)) =
                        Reference(chat, name, user_id, tweets)

\* a tick has sent tweet 1, whose text "Ab" has the term "a" in it only when
\* case is ignored, for a subscription whose filter list is that term; the
\* same filter rejects tweet 2, which has media and is above the cursor
C11_Witness ==
    \E i \in DOMAIN chats, k \in DOMAIN log :
        /\ log[k].chat = chats[i][1]
        /\ log[k].tweet = 1
        /\ TweetText(1) = "Ab"
        /\ Get(chats[i][2].filters, log[k].name, <<>>) = <<"a">>
        /\ Accept(chats[i][2], log[k].name, log[k].user_id, <<2>>) = <<>>

----------------------------------------------------------------------------
(* The state machine of a chat *)

\* the Chat of chat c in the dict d, a new one when d has none
ChatOf(d, c) == Get(d, Str(c), NewChat(c))

\* C12: in a chat that awaits nothing, the "Add new filter" button of a
\* subscription s makes the chat await a filter for s and changes nothing else
\* of it; the next text message of the chat becomes the last term of the
\* filters of s and of no other list, adds no subscription, and leaves the chat
\* awaiting nothing, so that one message is consumed per selection.
C12_StateMachineRoundTrip ==
    [][\A c \in ChatIds, s \in Names :
          /\ (ChatOf(chats, c).awaiting_filter = "" /\ add_filter(c, s, "none", NoCut))
                => /\ ChatOf(chats', c).awaiting_filter = s
                   /\ ChatOf(chats', c).filters = ChatOf(chats, c).filters
                   /\ ChatOf(chats', c).subscriptions = ChatOf(chats, c).subscriptions
          /\ \A text \in Texts :
                (ChatOf(chats, c).awaiting_filter = s /\ handle_input(c, text))
                    => /\ Get(ChatOf(chats', c).filters, s, <<>>) =
                              Append(Get(ChatOf(chats, c).filters, s, <<>>), text)
                       /\ \A r \in Names \ {s} :
                              Get(ChatOf(chats', c).filters, r, <<>>) =
                                  Get(ChatOf(chats, c).filters, r, <<>>)
                       /\ ChatOf(chats', c).subscriptions = ChatOf(chats, c).subscriptions
                       /\ ChatOf(chats', c).awaiting_filter = ""
      ]_vars

\* a chat subscribed to "a" alone has sent a text after the button: the text,
\* which names no user, is the filter of "a", and the chat awaits nothing
C12_Witness ==
    \E c \in ChatIds :
        /\ Has(chats, Str(c))
        /\ ChatOf(chats, c).subscriptions = <<<<"a", UserA>>>>
        /\ ChatOf(chats, c).filters = <<<<"a", <<"zz">>>>>>
        /\ ChatOf(chats, c).awaiting_filter = ""
        /\ msgs = 2

----------------------------------------------------------------------------
(* Time between two ticks *)

\* the seconds the loop sleeps before its next tick: asyncio.sleep(60) at the
\* end of a tick (bot.py:128), asyncio.sleep(1) after an exception (bot.py:141)
SleepSeconds ==
    CASE pc = "sleep60" -> 60
      [] pc = "sleep1"  -> 1
      [] OTHER          -> 0

\* the seconds until the reset that a rate-limited response can announce
ResetDelays == {5, 900}

\* C13: when a fetch of a tick is refused for a rate limit that resets T
\* seconds later, the loop does not fetch again before T seconds have passed,
\* and the tweets the tick accepted for the other subscriptions are sent in
\* that tick.
C13_RateLimitBackoff ==
    abort.kind = "fetch" =>
        /\ \A T \in ResetDelays : SleepSeconds >= T
        /\ \A i \in DOMAIN abort.dropped : \E j \in DOMAIN log : log[j] = abort.dropped[i]

----------------------------------------------------------------------------
(* A fetch that fails for good *)

\* C14: a fetch that fails with a fatal error is not issued again and again
\* at the one-second retry delay: from some point on no tick is ended by the
\* failing fetch.
C14_FatalNotRetriedForever == <>[](abort.kind # "fetch")

----------------------------------------------------------------------------
(* The loop is cancelled *)

\* C15: once the cancelled loop has exited, the tick that was in flight is
\* complete: for every (chat, subscription) its accepted tweets were all sent
\* or none was, and the cursor of every tweet delivered is in the file.
C15_CleanCancellation ==
    pc = "cancelled" =>
        /\ \A c \in ChatIds, name \in Names :
              \/ Sub(log, Str(c), name) = <<>>
              \/ Sub(log, Str(c), name) = Reverse(Sub(to_send, Str(c), name))
        /\ \A d \in delivered :
              Get(ChatOf(deserialize(disk), d.chat).last_sent_id,
                  Str(TweetFeed(d.tweet)), 0) >= d.tweet

----------------------------------------------------------------------------
(* Events the handlers may not be ready for *)

\* C16: when a chat that awaits nothing sends a text that names no user, the
\* handler ends with a reply to the chat, not with an exception, and the
\* chat's subscriptions, cursors, filters and pending input are as before.
C16_UnknownFeedName ==
    [][\A c \in ChatIds, text \in Texts :
          (/\ Resolve(text) = NotFound
           /\ ChatOf(chats, c).awaiting_filter = ""
           /\ handle_input(c, text))
              => /\ outcome' # HandlerRaised
                 /\ ChatOf(chats', c) = ChatOf(chats, c)
      ]_vars

\* C17: whichever event of a chat arrives first (a text, /edit or /search),
\* its handler leaves a Chat for that chat in chats, and the commands do not
\* end with an exception for the missing entry.
C17_ChatCreatedOnFirstEvent ==
    [][\A c \in ChatIds :
          ~Has(chats, Str(c)) =>
              /\ (\E text \in Texts : handle_input(c, text))
                    => Has(chats', Str(c))
              /\ search_menu(c) => (Has(chats', Str(c)) /\ outcome' # HandlerRaised)
              /\ edit_rules(c) => (Has(chats', Str(c)) /\ outcome' # HandlerRaised)
      ]_vars

----------------------------------------------------------------------------
(* The keys of a chat's dicts *)

\* C18: in every chat, every key of filters is the name of a subscription of
\* the chat, and every key of last_sent_id is the str() of the user id of a
\* subscription of the chat.
C18_KeyConsistency ==
    \A i \in DOMAIN chats :
        LET chat == chats[i][2]
        IN  /\ \A j \in DOMAIN chat.filters :
                  \E k \in DOMAIN chat.subscriptions :
                      chat.subscriptions[k][1] = chat.filters[j][1]
            /\ \A j \in DOMAIN chat.last_sent_id :
                  \E k \in DOMAIN chat.subscriptions :
                      Str(chat.subscriptions[k][2]) = chat.last_sent_id[j][1]

----------------------------------------------------------------------------
(* One tweet, one chat, one tick *)

\* C19: within a tick no tweet is sent to the same chat twice, also when the
\* chat has two subscription names for one user id.
C19_AtMostOncePerTick ==
    \A i, j \in DOMAIN log :
        (log[i].chat = log[j].chat /\ log[i].tweet = log[j].tweet) => i = j

----------------------------------------------------------------------------
(* Deleting a filter term *)

\* the list l without its element at position k
Without(l, k) == SubSeq(l, 1, k - 1) \o SubSeq(l, k + 1, Len(l))

\* C20: a "Delete <term>" button of any keyboard shown so far, when pressed,
\* does not fail and removes one occurrence of that term, and nothing else,
\* from the filters of its subscription.
C20_DeleteRemovesSelectedTerm ==
    [][\A b \in buttons :
          delete_filter(b, NoCut) =>
              LET old == Get(ChatOf(chats, b.chat_id).filters, b.subscription, <<>>)
                  new == Get(ChatOf(chats', b.chat_id).filters, b.subscription, <<>>)
              IN  /\ outcome' # HandlerRaised
                  /\ \E k \in DOMAIN old : old[k] = b.term /\ new = Without(old, k)
      ]_vars

====
